---------------------------- MODULE Spec2Model ----------------------------
(***************************************************************************)
(* A model of fb_mapper.transform: the mapping of a "simple mode" campaign *)
(* table into the Facebook Ads Manager bulk-import table, together with    *)
(* the table of row errors.                                                *)
(*                                                                         *)
(* A cell of the input table is a tagged value, as pandas hands it to the  *)
(* code: a missing value (NaN), a Python str, an int or a float.  Python   *)
(* strings are TLA+ strings; str.strip, str.lower, str.title, the "in"     *)
(* substring test, int(), float(), round() and str() are computed on them  *)
(* character by character.                                                 *)
(***************************************************************************)
EXTENDS Integers, Sequences, FiniteSets, TLC

(***************************************************************************)
(* Bounds of the model.                                                    *)
(***************************************************************************)
MaxRows == 3        \* rows of an input table of the inheritance scenarios
MaxFieldRows == 2   \* rows of an input table of the field scenarios

(***************************************************************************)
(* Cells.                                                                  *)
(***************************************************************************)
NaN == [k |-> "nan", s |-> "", n |-> 0, e |-> 0]
S(str) == [k |-> "str", s |-> str, n |-> 0, e |-> 0]
I(n) == [k |-> "int", s |-> "", n |-> n, e |-> 0]
\* the float n / 10^e
F(n, e) == [k |-> "float", s |-> "", n |-> n, e |-> e]

\* pd.isna(val)
IsNa(val) == val.k = "nan"

\* val == ""
IsEmptyStr(val) == val.k = "str" /\ val.s = ""

\* bool(val): a NaN is a non-zero float and is true
Truthy(val) ==
    CASE val.k = "nan" -> TRUE
      [] val.k = "str" -> val.s # ""
      [] OTHER -> val.n # 0

(***************************************************************************)
(* Python string operations.                                               *)
(***************************************************************************)
Whitespace == {" ", "\t", "\n"}
UpperChars == "ABCDEFGHIJKLMNOPQRSTUVWXYZ"
LowerChars == "abcdefghijklmnopqrstuvwxyz"
DigitChars == "0123456789"

CharAt(s, i) == SubSeq(s, i, i)

RECURSIVE IndexIn(_, _, _)
\* the 1-based position of character c in alphabet from position i on, 0 if none
IndexIn(c, alphabet, i) ==
    IF i > Len(alphabet) THEN 0
    ELSE IF CharAt(alphabet, i) = c THEN i
    ELSE IndexIn(c, alphabet, i + 1)

IsUpperChar(c) == IndexIn(c, UpperChars, 1) > 0
IsLowerChar(c) == IndexIn(c, LowerChars, 1) > 0
IsCased(c) == IsUpperChar(c) \/ IsLowerChar(c)
IsDigit(c) == IndexIn(c, DigitChars, 1) > 0
DigitVal(c) == IndexIn(c, DigitChars, 1) - 1

\* the character at position i of alphabet to, c itself when i is 0
MapChar(c, i, to) == IF i > 0 THEN CharAt(to, i) ELSE c

LowerChar(c) == MapChar(c, IndexIn(c, UpperChars, 1), LowerChars)

UpperChar(c) == MapChar(c, IndexIn(c, LowerChars, 1), UpperChars)

RECURSIVE LStrip(_)
LStrip(s) ==
    IF s = "" THEN ""
    ELSE IF Head(s) \in Whitespace THEN LStrip(Tail(s))
    ELSE s

RECURSIVE RStrip(_)
RStrip(s) ==
    IF s = "" THEN ""
    ELSE IF CharAt(s, Len(s)) \in Whitespace THEN RStrip(SubSeq(s, 1, Len(s) - 1))
    ELSE s

\* str.strip()
Strip(s) == RStrip(LStrip(s))

RECURSIVE Lower(_)
\* str.lower()
Lower(s) == IF s = "" THEN "" ELSE LowerChar(Head(s)) \o Lower(Tail(s))

RECURSIVE TitleFrom(_, _)
TitleFrom(s, prevCased) ==
    IF s = "" THEN ""
    ELSE (IF prevCased THEN LowerChar(Head(s)) ELSE UpperChar(Head(s)))
             \o TitleFrom(Tail(s), IsCased(Head(s)))

\* str.title()
Title(s) == TitleFrom(s, FALSE)

\* sub in s
Contains(sub, s) ==
    \E i \in 1..(Len(s) - Len(sub) + 1) : SubSeq(s, i, i + Len(sub) - 1) = sub

RECURSIVE AllDigits(_)
AllDigits(s) == s = "" \/ (IsDigit(Head(s)) /\ AllDigits(Tail(s)))

RECURSIVE DigitsVal(_, _)
\* the number written by the digit string s, after the digits of value acc
DigitsVal(s, acc) ==
    IF s = "" THEN acc ELSE DigitsVal(Tail(s), 10 * acc + DigitVal(Head(s)))

RECURSIVE NatToStr(_)
NatToStr(n) ==
    IF n < 10 THEN CharAt(DigitChars, n + 1)
    ELSE NatToStr(n \div 10) \o CharAt(DigitChars, (n % 10) + 1)

\* str(n) of an int
IntToStr(n) == IF n < 0 THEN "-" \o NatToStr(0 - n) ELSE NatToStr(n)

RECURSIVE Pow10(_)
Pow10(e) == IF e = 0 THEN 1 ELSE 10 * Pow10(e - 1)

RECURSIVE PadZeros(_, _)
PadZeros(s, width) == IF Len(s) >= width THEN s ELSE PadZeros("0" \o s, width)

RECURSIVE DropTrailingZeros(_)
DropTrailingZeros(s) ==
    IF Len(s) > 1 /\ CharAt(s, Len(s)) = "0"
    THEN DropTrailingZeros(SubSeq(s, 1, Len(s) - 1))
    ELSE s

Abs(n) == IF n < 0 THEN 0 - n ELSE n

\* the digits after the point of the non-negative float a / 10^e
FracStr(a, e) ==
    IF e = 0 THEN "0" ELSE DropTrailingZeros(PadZeros(NatToStr(a % Pow10(e)), e))

\* str(x) of the float n / 10^e: always a fractional part, "100.0", "2.5"
FloatToStr(n, e) ==
    (IF n < 0 THEN "-" ELSE "") \o NatToStr(Abs(n) \div Pow10(e)) \o "."
        \o FracStr(Abs(n), e)

\* str(val)
PyStr(val) ==
    CASE val.k = "nan" -> "nan"
      [] val.k = "str" -> val.s
      [] val.k = "int" -> IntToStr(val.n)
      [] OTHER -> FloatToStr(val.n, val.e)

(***************************************************************************)
(* Python numbers: a parsed number is "fin" (sign * n / 10^e), "nan" or    *)
(* "inf"; ok is FALSE where Python raises ValueError.                      *)
(***************************************************************************)
Num(ok, kind, n, e) == [ok |-> ok, kind |-> kind, n |-> n, e |-> e]
BadNum == Num(FALSE, "fin", 0, 0)

\* the position of the first "." of s, 0 if none
DotAt(s) == IndexIn(".", s, 1)

\* the parts of body before and after the "." at position dot (0: no ".")
WholePart(body, dot) == IF dot = 0 THEN body ELSE SubSeq(body, 1, dot - 1)
FracPart(body, dot) == IF dot = 0 THEN "" ELSE SubSeq(body, dot + 1, Len(body))

Signed(neg, mag) == IF neg THEN 0 - mag ELSE mag

\* the float of sign neg written by low (lower-cased) or by whole "." frac
FloatOfParts(neg, low, whole, frac) ==
    IF low = "nan" THEN Num(TRUE, "nan", 0, 0)
    ELSE IF low \in {"inf", "infinity"} THEN Num(TRUE, "inf", Signed(neg, 1), 0)
    ELSE IF AllDigits(whole) /\ AllDigits(frac) /\ (whole \o frac) # ""
         THEN Num(TRUE, "fin", Signed(neg, DigitsVal(whole \o frac, 0)), Len(frac))
    ELSE BadNum

FloatOfBody(neg, body) ==
    FloatOfParts(neg, Lower(body), WholePart(body, DotAt(body)), FracPart(body, DotAt(body)))

\* the float written by the stripped string t
FloatOfStripped(t) ==
    IF t # "" /\ Head(t) \in {"-", "+"}
    THEN FloatOfBody(Head(t) = "-", Tail(t))
    ELSE FloatOfBody(FALSE, t)

\* float(s) of a str: optional sign, then nan, inf, infinity or a decimal literal
ParseFloat(str) == FloatOfStripped(Strip(str))

\* float(val)
ToFloat(val) ==
    CASE val.k = "nan" -> Num(TRUE, "nan", 0, 0)
      [] val.k = "str" -> ParseFloat(val.s)
      [] OTHER -> Num(TRUE, "fin", val.n, val.e)

IntOfBody(neg, body) ==
    IF body # "" /\ AllDigits(body)
    THEN Num(TRUE, "fin", Signed(neg, DigitsVal(body, 0)), 0)
    ELSE BadNum

\* the int written by the stripped string t
IntOfStripped(t) ==
    IF t # "" /\ Head(t) \in {"-", "+"}
    THEN IntOfBody(Head(t) = "-", Tail(t))
    ELSE IntOfBody(FALSE, t)

\* int(s) of a str: optional sign and digits only
ParseInt(str) == IntOfStripped(Strip(str))

\* n / 10^e truncated towards zero
Trunc(n, e) == IF n < 0 THEN 0 - ((0 - n) \div Pow10(e)) ELSE n \div Pow10(e)

\* int(val): a float is truncated towards zero, NaN raises
ToInt(val) ==
    CASE val.k = "nan" -> BadNum
      [] val.k = "str" -> ParseInt(val.s)
      [] val.k = "int" -> Num(TRUE, "fin", val.n, 0)
      [] OTHER -> Num(TRUE, "fin", Trunc(val.n, val.e), 0)

\* round(n / 10^e) for n >= 0: to the nearest integer, a half to the even one
RoundHalfEven(n, e) ==
    LET p == Pow10(e)
        q == n \div p
        r == n % p
    IN  IF 2 * r < p THEN q
        ELSE IF 2 * r > p THEN q + 1
        ELSE IF q % 2 = 0 THEN q ELSE q + 1

\* the cell is a missing value or its text is empty or whitespace
IsBlankText(val) == IsNa(val) \/ Strip(PyStr(val)) = ""


(***************************************************************************)
(* The enumerations and the objective defaults.                            *)
(***************************************************************************)
VALID ==
    [status |-> {"ACTIVE", "PAUSED", "ARCHIVED", "DELETED"},
     objectives |-> {"Traffic", "Leads", "Conversions", "Sales", "Video Views",
                     "Reach", "Engagement", "App Installs", "Brand Awareness",
                     "Messages"},
     buying_type |-> {"AUCTION", "FIXED_PRICE"},
     bid_strategies |-> {"Lowest cost", "Cost cap", "ROAS goal", "Bid cap"},
     cta |-> {"LEARN_MORE", "SIGN_UP", "GET_QUOTE", "SHOP_NOW", "SUBSCRIBE",
              "APPLY_NOW", "CONTACT_US", "BOOK_NOW", "DOWNLOAD", "GET_DIRECTIONS"},
     gender |-> {"All", "Male", "Female"},
     placements |-> {"facebook", "instagram", "audience_network", "messenger",
                     "feed", "stories", "reels", "instream_video", "marketplace"},
     special_categories |-> {"CREDIT", "EMPLOYMENT", "HOUSING", "SOCIAL_ISSUES",
                             "POLITICS"}]

OBJ_DEFAULTS ==
    [o \in {"Leads", "Conversions", "Sales", "Traffic", "Video Views",
            "Brand Awareness", "Reach", "Engagement", "App Installs", "Messages"} |->
        CASE o = "Leads" -> [optimisation |-> "LEAD_GENERATION", cta |-> "SIGN_UP"]
          [] o = "Conversions" -> [optimisation |-> "CONVERSIONS", cta |-> "SHOP_NOW"]
          [] o = "Sales" -> [optimisation |-> "VALUE", cta |-> "SHOP_NOW"]
          [] o = "Traffic" -> [optimisation |-> "LINK_CLICKS", cta |-> "LEARN_MORE"]
          [] o = "Video Views" -> [optimisation |-> "THRUPLAY", cta |-> "LEARN_MORE"]
          [] o = "Brand Awareness" -> [optimisation |-> "BRAND_AWARENESS", cta |-> "LEARN_MORE"]
          [] o = "Reach" -> [optimisation |-> "REACH", cta |-> "LEARN_MORE"]
          [] o = "Engagement" -> [optimisation |-> "POST_ENGAGEMENT", cta |-> "LEARN_MORE"]
          [] o = "App Installs" -> [optimisation |-> "APP_INSTALLS", cta |-> "DOWNLOAD"]
          [] OTHER -> [optimisation |-> "CONVERSATIONS", cta |-> "CONTACT_US"]]

\* str(sorted(allowed)) of the sets the validators name in their messages
SortedRepr(allowed) ==
    CASE allowed = VALID.status -> "['ACTIVE', 'ARCHIVED', 'DELETED', 'PAUSED']"
      [] allowed = VALID.objectives ->
            "['App Installs', 'Brand Awareness', 'Conversions', 'Engagement', 'Leads', 'Messages', 'Reach', 'Sales', 'Traffic', 'Video Views']"
      [] allowed = VALID.buying_type -> "['AUCTION', 'FIXED_PRICE']"
      [] allowed = VALID.bid_strategies -> "['Bid cap', 'Cost cap', 'Lowest cost', 'ROAS goal']"
      [] allowed = VALID.cta ->
            "['APPLY_NOW', 'BOOK_NOW', 'CONTACT_US', 'DOWNLOAD', 'GET_DIRECTIONS', 'GET_QUOTE', 'LEARN_MORE', 'SHOP_NOW', 'SIGN_UP', 'SUBSCRIBE']"
      [] OTHER -> "['All', 'Female', 'Male']"

(***************************************************************************)
(* The field validators.  A validator returns Ok(v), the str it returns,   *)
(* or Raise(msg), the message of the exception it raises.                  *)
(***************************************************************************)
Ok(v) == [ok |-> TRUE, v |-> v, err |-> ""]
Raise(msg) == [ok |-> FALSE, v |-> "", err |-> msg]

\* a date of the proleptic Gregorian calendar
DaysIn(y, m) ==
    IF m \in {4, 6, 9, 11} THEN 30
    ELSE IF m # 2 THEN 31
    ELSE IF (y % 4 = 0 /\ y % 100 # 0) \/ y % 400 = 0 THEN 29 ELSE 28

ValidDate(y, m, d) == y >= 1 /\ m \in 1..12 /\ d \in 1..DaysIn(y, m)

\* s[i..j] is a run of digits
DigitsAt(s, i, j) == AllDigits(SubSeq(s, i, j))
NumAt(s, i, j) == DigitsVal(SubSeq(s, i, j), 0)

\* s is YYYY-MM-DD<sep>HH:MM, zero-padded, of a real date and time
IsDateTime16(s, sep) ==
    /\ Len(s) = 16
    /\ DigitsAt(s, 1, 4) /\ CharAt(s, 5) = "-" /\ DigitsAt(s, 6, 7)
    /\ CharAt(s, 8) = "-" /\ DigitsAt(s, 9, 10) /\ CharAt(s, 11) = sep
    /\ DigitsAt(s, 12, 13) /\ CharAt(s, 14) = ":" /\ DigitsAt(s, 15, 16)
    /\ ValidDate(NumAt(s, 1, 4), NumAt(s, 6, 7), NumAt(s, 9, 10))
    /\ NumAt(s, 12, 13) <= 23 /\ NumAt(s, 15, 16) <= 59

\* datetime.strptime(s, "%Y-%m-%d %H:%M").strftime("%Y-%m-%d %H:%M") of a
\* 16-character s with zero-padded fields
Strptime16(s) == IF IsDateTime16(s, " ") THEN Ok(s) ELSE Raise("strptime")

\* pd.to_datetime(val).strftime("%Y-%m-%d %H:%M"): a number counts nanoseconds
\* from the epoch, a str is read as ISO 8601 with a "T" between date and time
PdToDatetime(val) ==
    CASE val.k = "int" /\ val.n >= 0 -> Ok("1970-01-01 00:00")
      [] val.k = "int" /\ val.n < 0 -> Ok("1969-12-31 23:59")
      [] val.k = "float" /\ val.n >= 0 -> Ok("1970-01-01 00:00")
      [] val.k = "float" /\ val.n < 0 -> Ok("1969-12-31 23:59")
      [] val.k = "str" /\ IsDateTime16(val.s, "T") ->
            Ok(SubSeq(val.s, 1, 10) \o " " \o SubSeq(val.s, 12, 16))
      [] OTHER -> Raise("to_datetime")

\* the parse of the stripped value v of _coerce_time
ParseTime(v) ==
    IF v.k = "str" /\ Len(v.s) = 16 /\ CharAt(v.s, 11) = " " THEN Strptime16(v.s)
    ELSE IF v.k = "str" /\ Len(v.s) = 10 THEN Ok(v.s \o " 00:00")
    ELSE PdToDatetime(v)

\* the result of _coerce_time on the stripped value v parsed as parsed
TimeResult(v, parsed) ==
    IF parsed.ok THEN parsed
    ELSE Raise("Invalid time format: " \o PyStr(v) \o ". Use YYYY-MM-DD HH:MM or YYYY-MM-DD")

CoerceStripped(v) == TimeResult(v, ParseTime(v))

_coerce_time(val) ==
    IF IsNa(val) \/ IsEmptyStr(val) THEN Ok("")
    ELSE IF val.k = "str" THEN CoerceStripped(S(Strip(val.s)))
    ELSE CoerceStripped(val)

\* the try block of _pos_number: v is float(val), shown is str(val)
PositiveOf(v, shown) ==
    IF ~v.ok \/ v.kind = "nan" \/ v.n <= 0
    THEN Raise("Invalid positive number: " \o shown)
    ELSE IF v.kind = "inf" THEN Raise("cannot convert float infinity to integer")
    ELSE Ok(IntToStr(RoundHalfEven(v.n, v.e)))

_pos_number(val) ==
    IF IsBlankText(val) THEN Ok("") ELSE PositiveOf(ToFloat(val), PyStr(val))

\* the membership test of _enum on s, the stripped str(val)
EnumOf(s, allowed, field) ==
    IF s \notin allowed
    THEN Raise(field \o ": '" \o s \o "' not in " \o SortedRepr(allowed))
    ELSE Ok(s)

_enum(val, allowed, field, default) ==
    IF IsNa(val) \/ IsEmptyStr(val) THEN Ok(default)
    ELSE EnumOf(Strip(PyStr(val)), allowed, field)

\* the membership test of _gender on s, the title-cased stripped str(val)
GenderOf(s, val) ==
    IF s \notin VALID.gender
    THEN Raise("Gender: '" \o PyStr(val) \o "' must be one of " \o SortedRepr(VALID.gender))
    ELSE Ok(s)

_gender(val) ==
    IF IsNa(val) \/ IsEmptyStr(val) THEN Ok("All")
    ELSE GenderOf(Title(Strip(PyStr(val))), val)

\* min_allowed of _age_pair
MinAllowed(special_categories) ==
    IF Truthy(special_categories) /\ Strip(PyStr(special_categories)) # ""
    THEN 18 ELSE 13

max_allowed == 65

\* int(v) if not pd.isna(v) and str(v).strip() else fallback
AgeOf(v, fallback) ==
    IF ~IsBlankText(v) THEN ToInt(v) ELSE Num(TRUE, "fin", fallback, 0)

\* the constraints of _age_pair on the parsed ages; invalid is the exception
AgeRange(parsedMin, parsedMax, min_allowed, invalid) ==
    IF ~parsedMin.ok \/ ~parsedMax.ok THEN invalid
    ELSE IF parsedMin.n > parsedMax.n THEN invalid
    ELSE Ok(<<IntToStr(IF parsedMin.n < min_allowed THEN min_allowed ELSE parsedMin.n),
              IntToStr(IF parsedMax.n > max_allowed THEN max_allowed ELSE parsedMax.n)>>)

AgeError(minv, maxv, min_allowed) ==
    Raise("Invalid age pair: Min=" \o PyStr(minv) \o ", Max=" \o PyStr(maxv)
              \o ". Must be integers between " \o IntToStr(min_allowed) \o "-"
              \o IntToStr(max_allowed))

AgePairOf(minv, maxv, min_allowed) ==
    IF IsNa(minv) /\ IsNa(maxv)
    THEN Ok(<<IntToStr(min_allowed), IntToStr(max_allowed)>>)
    ELSE AgeRange(AgeOf(minv, min_allowed), AgeOf(maxv, max_allowed), min_allowed,
                  AgeError(minv, maxv, min_allowed))

\* _age_pair returns a pair of strings: Ok's v is <<min, max>>
_age_pair(minv, maxv, special_categories) ==
    AgePairOf(minv, maxv, MinAllowed(special_categories))

_default_cta(objective, cta) ==
    IF Truthy(cta) /\ Strip(PyStr(cta)) # ""
    THEN _enum(cta, VALID.cta, "Call to Action", "")
    ELSE IF objective \in DOMAIN OBJ_DEFAULTS THEN Ok(OBJ_DEFAULTS[objective].cta)
    ELSE Ok("LEARN_MORE")

_default_opt_goal(objective, goal) ==
    IF Truthy(goal) /\ Strip(PyStr(goal)) # ""
    THEN Ok(Strip(PyStr(goal)))
    ELSE IF objective \in DOMAIN OBJ_DEFAULTS THEN Ok(OBJ_DEFAULTS[objective].optimisation)
    ELSE Ok("LINK_CLICKS")

utm_default == "utm_source=facebook&utm_medium=cpc&utm_campaign=facebook_ads"

\* the format check of _process_utm_parameters on the stripped link and tags
UtmOf(clean_link, clean_utm) ==
    IF ~(Contains("=", clean_utm) /\ Contains("utm_", clean_utm))
    THEN Raise("Invalid UTM format: '" \o clean_utm
                   \o "'. Expected format: utm_source=facebook&utm_medium=cpc&utm_campaign=name")
    ELSE Ok(<<clean_link, clean_utm>>)

\* _process_utm_parameters with the format check ahead of the blank-link return
_process_utm_parameters_TagsFirst(link, utm_params) ==
    IF ~IsBlankText(utm_params)
       /\ ~UtmOf(Strip(PyStr(link)), Strip(PyStr(utm_params))).ok
    THEN UtmOf(Strip(PyStr(link)), Strip(PyStr(utm_params)))
    ELSE IF IsBlankText(link) THEN Ok(<<"", "">>)
    ELSE IF IsBlankText(utm_params) THEN Ok(<<Strip(PyStr(link)), utm_default>>)
    ELSE Ok(<<Strip(PyStr(link)), Strip(PyStr(utm_params))>>)

\* _process_utm_parameters returns a pair of strings: Ok's v is <<link, tags>>
_process_utm_parameters(link, utm_params) ==
    IF IsBlankText(link) THEN Ok(<<"", "">>)
    ELSE IF IsBlankText(utm_params) THEN Ok(<<Strip(PyStr(link)), utm_default>>)
    ELSE UtmOf(Strip(PyStr(link)), Strip(PyStr(utm_params)))

(***************************************************************************)
(* The state of one call of transform(df).                                 *)
(*   df         the input table: its set of columns and its rows, each a   *)
(*              function from the columns to cells; the index is the       *)
(*              default one, so the row at position i has idx = i - 1      *)
(*   df_ff      the copy of df that is forward-filled and iterated         *)
(*   pc         "ffill", "rows" (the loop over the rows) or "done"         *)
(*   idx        the position in df_ff of the next row of the loop          *)
(*   rows       the list of output records (dicts of str)                  *)
(*   errors     the list of error records                                  *)
(*   output_df  the returned output table                                  *)
(*   errors_df  the returned error table                                   *)
(***************************************************************************)
VARIABLES df, df_ff, pc, idx, rows, errors, output_df, errors_df

vars == <<df, df_ff, pc, idx, rows, errors, output_df, errors_df>>

campaign_cols ==
    <<"Campaign Name", "Campaign Status", "Special Ad Categories",
      "Special Ad Category Country", "Campaign Objective", "Buying Type",
      "Campaign Bid Strategy", "Campaign Daily Budget", "Campaign Start Time",
      "Campaign Stop Time">>

column_order ==
    <<"Campaign Name", "Campaign Status", "Special Ad Categories",
      "Special Ad Category Country", "Campaign Objective", "Buying Type",
      "Campaign Bid Strategy", "Campaign Daily Budget", "Campaign Start Time",
      "Campaign Stop Time",
      "Ad Set Name", "Ad Set Run Status", "Ad Set Daily Budget",
      "Ad Set Time Start", "Ad Set Time Stop", "Countries", "Age Min", "Age Max",
      "Gender", "Custom Audiences", "Excluded Custom Audiences", "Optimisation Goal",
      "Ad Name", "Ad Status", "Title", "Body", "Link", "URL Tags",
      "Call to Action", "Image File Name">>

Range(seq) == {seq[i] : i \in 1..Len(seq)}

\* row.get(col, default)
Get(row, col, default) == IF col \in DOMAIN row THEN row[col] ELSE S(default)

RECURSIVE FFillCell(_, _, _)
\* Series.ffill(): the cell at position i of column col, a missing value
\* replaced by the filled cell above it
FFillCell(data, col, i) ==
    IF ~IsNa(data[i][col]) \/ i = 1 THEN data[i][col]
    ELSE FFillCell(data, col, i - 1)

\* the forward fill of the campaign columns that the table has
FFill(frame) ==
    [columns |-> frame.columns,
     data |-> [i \in 1..Len(frame.data) |->
                  [c \in frame.columns |->
                      IF c \in Range(campaign_cols)
                      THEN FFillCell(frame.data, c, i)
                      ELSE frame.data[i][c]]]]

\* Level without the lower-casing of the Input Level
Level_NoLower(row) == Strip(PyStr(Get(row, "Input Level", "")))

\* str(row.get("Input Level", "")).lower().strip()
Level(row) == Strip(Lower(PyStr(Get(row, "Input Level", ""))))

\* the exception that aborts a row: that of the first validator that raises
FirstError(results) ==
    LET bad == {i \in 1..Len(results) : ~results[i].ok}
    IN  results[CHOOSE i \in bad : \A j \in bad : i <= j].err

AllOk(results) == \A i \in 1..Len(results) : results[i].ok

\* str(row.get(col, "")).strip()
Text(row, col) == Strip(PyStr(Get(row, col, "")))

\* the validators of the campaign branch, in the order they are called
CampaignChecks(row) ==
    <<_enum(Get(row, "Campaign Objective", ""), VALID.objectives, "Campaign Objective", ""),
      _enum(Get(row, "Campaign Status", "ACTIVE"), VALID.status, "Campaign Status", "ACTIVE"),
      _enum(Get(row, "Buying Type", "AUCTION"), VALID.buying_type, "Buying Type", "AUCTION"),
      _enum(Get(row, "Campaign Bid Strategy", "Lowest cost"), VALID.bid_strategies,
            "Campaign Bid Strategy", "Lowest cost"),
      _pos_number(Get(row, "Campaign Daily Budget", "")),
      _coerce_time(Get(row, "Campaign Start Time", "")),
      _coerce_time(Get(row, "Campaign Stop Time", ""))>>

\* the output_row of the campaign branch, r the results of its validators
CampaignRecord(row, r) ==
        [c \in Range(campaign_cols) |->
            CASE c = "Campaign Name" -> Text(row, "Campaign Name")
              [] c = "Campaign Status" -> r[2].v
              [] c = "Special Ad Categories" -> Text(row, "Special Ad Categories")
              [] c = "Special Ad Category Country" -> Text(row, "Special Ad Category Country")
              [] c = "Campaign Objective" -> r[1].v
              [] c = "Buying Type" -> r[3].v
              [] c = "Campaign Bid Strategy" -> r[4].v
              [] c = "Campaign Daily Budget" -> r[5].v
              [] c = "Campaign Start Time" -> r[6].v
              [] OTHER -> r[7].v]

\* ResolveBudgets without the clearing of the campaign budget
ResolveBudgets_KeepBoth(campaign_budget, adset_budget) == <<campaign_budget, adset_budget>>

\* if campaign_budget and adset_budget: campaign_budget = ""
ResolveBudgets(campaign_budget, adset_budget) ==
    IF campaign_budget # "" /\ adset_budget # ""
    THEN <<"", adset_budget>>
    ELSE <<campaign_budget, adset_budget>>

\* the two budgets of the adset branch after the conflict resolution:
\* <<campaign_budget, adset_budget>>
Budgets(row) ==
    ResolveBudgets(Text(row, "Campaign Daily Budget"), Text(row, "Ad Set Daily Budget"))

\* _pos_number(budget) if budget else ""
BudgetField(budget) == IF budget # "" THEN _pos_number(S(budget)) ELSE Ok("")

\* AdsetChecksOf with the inherited campaign status taken over unvalidated
AdsetChecksOf_StatusUnchecked(row, objective, budgets) ==
        <<objective,
          _age_pair(Get(row, "Age Min", ""), Get(row, "Age Max", ""),
                    Get(row, "Special Ad Categories", "")),
          _process_utm_parameters(Get(row, "Link", ""), Get(row, "URL Tags", "")),
          _default_cta(objective.v, Get(row, "Call to Action", "")),
          _default_opt_goal(objective.v, Get(row, "Optimisation Goal", "")),
          Ok(Text(row, "Campaign Status")),
          _enum(Get(row, "Buying Type", "AUCTION"), VALID.buying_type, "Buying Type", "AUCTION"),
          _enum(Get(row, "Campaign Bid Strategy", "Lowest cost"), VALID.bid_strategies,
                "Campaign Bid Strategy", "Lowest cost"),
          BudgetField(budgets[1]),
          _coerce_time(Get(row, "Campaign Start Time", "")),
          _coerce_time(Get(row, "Campaign Stop Time", "")),
          _enum(Get(row, "Ad Set Run Status", "ACTIVE"), VALID.status, "Ad Set Run Status", "ACTIVE"),
          BudgetField(budgets[2]),
          _coerce_time(Get(row, "Ad Set Time Start", "")),
          _coerce_time(Get(row, "Ad Set Time Stop", "")),
          _gender(Get(row, "Gender", "All")),
          _enum(Get(row, "Ad Status", "ACTIVE"), VALID.status, "Ad Status", "ACTIVE")>>

\* the validators of the adset branch, in the order they are called, after
\* the objective and the budgets are resolved
AdsetChecksOf(row, objective, budgets) ==
        <<objective,
          _age_pair(Get(row, "Age Min", ""), Get(row, "Age Max", ""),
                    Get(row, "Special Ad Categories", "")),
          _process_utm_parameters(Get(row, "Link", ""), Get(row, "URL Tags", "")),
          _default_cta(objective.v, Get(row, "Call to Action", "")),
          _default_opt_goal(objective.v, Get(row, "Optimisation Goal", "")),
          _enum(Get(row, "Campaign Status", "ACTIVE"), VALID.status, "Campaign Status", "ACTIVE"),
          _enum(Get(row, "Buying Type", "AUCTION"), VALID.buying_type, "Buying Type", "AUCTION"),
          _enum(Get(row, "Campaign Bid Strategy", "Lowest cost"), VALID.bid_strategies,
                "Campaign Bid Strategy", "Lowest cost"),
          BudgetField(budgets[1]),
          _coerce_time(Get(row, "Campaign Start Time", "")),
          _coerce_time(Get(row, "Campaign Stop Time", "")),
          _enum(Get(row, "Ad Set Run Status", "ACTIVE"), VALID.status, "Ad Set Run Status", "ACTIVE"),
          BudgetField(budgets[2]),
          _coerce_time(Get(row, "Ad Set Time Start", "")),
          _coerce_time(Get(row, "Ad Set Time Stop", "")),
          _gender(Get(row, "Gender", "All")),
          _enum(Get(row, "Ad Status", "ACTIVE"), VALID.status, "Ad Status", "ACTIVE")>>

AdsetChecks(row) ==
    AdsetChecksOf(row,
                  _enum(Get(row, "Campaign Objective", ""), VALID.objectives,
                        "Campaign Objective", ""),
                  Budgets(row))

adset_keys == Range(column_order) \cup {"Advantage+ placements"}

\* the output_row of the adset branch, r the results of its validators
AdsetRecord(row, r) ==
        [c \in adset_keys |->
            CASE c = "Campaign Status" -> r[6].v
              [] c = "Campaign Objective" -> r[1].v
              [] c = "Buying Type" -> r[7].v
              [] c = "Campaign Bid Strategy" -> r[8].v
              [] c = "Campaign Daily Budget" -> r[9].v
              [] c = "Campaign Start Time" -> r[10].v
              [] c = "Campaign Stop Time" -> r[11].v
              [] c = "Ad Set Run Status" -> r[12].v
              [] c = "Ad Set Daily Budget" -> r[13].v
              [] c = "Ad Set Time Start" -> r[14].v
              [] c = "Ad Set Time Stop" -> r[15].v
              [] c = "Age Min" -> r[2].v[1]
              [] c = "Age Max" -> r[2].v[2]
              [] c = "Gender" -> r[16].v
              [] c = "Optimisation Goal" -> r[5].v
              [] c = "Ad Status" -> r[17].v
              [] c = "Link" -> r[3].v[1]
              [] c = "URL Tags" -> r[3].v[2]
              [] c = "Call to Action" -> r[4].v
              [] c = "Advantage+ placements" -> "true"
              [] OTHER -> Text(row, c)]

ErrorRecord(num, field, error) == [row |-> num, field |-> field, error |-> error]

\* pd.DataFrame(rows), the missing columns added as "", reordered to column_order
OutputFrame(records) ==
    LET present == UNION {DOMAIN records[i] : i \in 1..Len(records)}
    IN  [columns |-> column_order,
         data |-> [i \in 1..Len(records) |->
                      [c \in Range(column_order) |->
                          IF c \notin present THEN S("")
                          ELSE IF c \in DOMAIN records[i] THEN S(records[i][c])
                          ELSE NaN]]]

\* pd.DataFrame(errors)
ErrorFrame(errs) ==
    [columns |-> IF errs = <<>> THEN <<>> ELSE <<"row", "field", "error">>,
     data |-> errs]

EmptyFrame == [columns |-> <<>>, data |-> <<>>]

(***************************************************************************)
(* The steps of transform.                                                 *)
(***************************************************************************)
\* the state at the entry of transform(table)
Start(table) ==
    /\ df = table
    /\ df_ff = table
    /\ pc = "ffill"
    /\ idx = 1
    /\ rows = <<>>
    /\ errors = <<>>
    /\ output_df = EmptyFrame
    /\ errors_df = EmptyFrame

\* for col in campaign_cols: df_ff[col] = df_ff[col].ffill()
ForwardFill ==
    /\ pc = "ffill"
    /\ df_ff' = FFill(df_ff)
    /\ pc' = "rows"
    /\ UNCHANGED <<df, idx, rows, errors, output_df, errors_df>>

InLoop == pc = "rows" /\ idx <= Len(df_ff.data)

\* row_num without the header line and the 1-based count
row_num_ZeroBased == idx - 1

\* the Excel row number idx + 2 of the row at position idx
row_num == (idx - 1) + 2

\* a row whose level is neither campaign nor adset
InvalidLevel ==
    /\ InLoop
    /\ Level(df_ff.data[idx]) \notin {"campaign", "adset"}
    /\ errors' = Append(errors, ErrorRecord(row_num, "Input Level",
                                            "Must be 'campaign' or 'adset'"))
    /\ idx' = idx + 1
    /\ UNCHANGED <<df, df_ff, pc, rows, output_df, errors_df>>

\* Build with an exception that ends the loop instead of the row
Build_StopAtError(level, checks, record) ==
    /\ IF AllOk(checks)
       THEN rows' = Append(rows, record) /\ errors' = errors /\ idx' = idx + 1
       ELSE errors' = Append(errors, ErrorRecord(row_num, level, FirstError(checks)))
            /\ rows' = rows /\ idx' = Len(df_ff.data) + 1
    /\ UNCHANGED <<df, df_ff, pc, output_df, errors_df>>

\* the try block of a row: append the record, or the error of the exception
Build(level, checks, record) ==
    /\ IF AllOk(checks)
       THEN rows' = Append(rows, record) /\ errors' = errors
       ELSE errors' = Append(errors, ErrorRecord(row_num, level, FirstError(checks)))
            /\ rows' = rows
    /\ idx' = idx + 1
    /\ UNCHANGED <<df, df_ff, pc, output_df, errors_df>>

CampaignRow ==
    /\ InLoop
    /\ Level(df_ff.data[idx]) = "campaign"
    /\ Build("campaign", CampaignChecks(df_ff.data[idx]),
             CampaignRecord(df_ff.data[idx], CampaignChecks(df_ff.data[idx])))

AdsetRow ==
    /\ InLoop
    /\ Level(df_ff.data[idx]) = "adset"
    /\ Build("adset", AdsetChecks(df_ff.data[idx]),
             AdsetRecord(df_ff.data[idx], AdsetChecks(df_ff.data[idx])))

\* the end of the loop: the two tables are built and returned
Assemble ==
    /\ pc = "rows"
    /\ idx > Len(df_ff.data)
    /\ output_df' = OutputFrame(rows)
    /\ errors_df' = ErrorFrame(errors)
    /\ pc' = "done"
    /\ UNCHANGED <<df, df_ff, idx, rows, errors>>

Next == ForwardFill \/ InvalidLevel \/ CampaignRow \/ AdsetRow \/ Assemble

(***************************************************************************)
(* Input tables.  A table is built, as pd.DataFrame(rows) builds it, from  *)
(* a list of dicts: its columns are the keys of all the dicts and a cell   *)
(* whose key its dict lacks is a missing value.  A column that no dict     *)
(* names is absent from the table.                                         *)
(***************************************************************************)
FrameOf(dicts) ==
    LET cols == UNION {DOMAIN dicts[i] : i \in 1..Len(dicts)}
    IN  [columns |-> cols,
         data |-> [i \in 1..Len(dicts) |->
                      [c \in cols |-> IF c \in DOMAIN dicts[i] THEN dicts[i][c] ELSE NaN]]]

\* the tables of at most max rows drawn from dictSet
TablesOf(dictSet, max) ==
    {FrameOf(d) : d \in UNION {[1..n -> dictSet] : n \in 0..max}}

Lvl(level) == "Input Level" :> S(level)

\* Rows of the inheritance scenarios: campaign rows that set a context, adset
\* rows that inherit it, override it or blank it with empty strings, rows of
\* invalid or missing level, and rows with several invalid fields.
MainRows ==
    { Lvl("campaign") @@ ("Campaign Name" :> S("Camp A"))
          @@ ("Campaign Objective" :> S("Leads"))
          @@ ("Special Ad Categories" :> S("HOUSING"))
          @@ ("Campaign Status" :> S("PAUSED"))
          @@ ("Campaign Daily Budget" :> I(100)),
      Lvl("campaign") @@ ("Campaign Name" :> S("Camp C"))
          @@ ("Campaign Objective" :> S("Traffic")),
      Lvl(" CAMPAIGN ") @@ ("Campaign Name" :> S("Camp B"))
          @@ ("Campaign Objective" :> S("Bogus"))
          @@ ("Campaign Status" :> S("RUNNING"))
          @@ ("Campaign Daily Budget" :> I(-5)),
      Lvl("adset") @@ ("Ad Set Name" :> S("AS1")),
      Lvl("AdSet") @@ ("Campaign Name" :> S(""))
          @@ ("Campaign Objective" :> S(""))
          @@ ("Ad Set Name" :> S("AS2")),
      Lvl("adset") @@ ("Campaign Name" :> S("Own"))
          @@ ("Campaign Objective" :> S("Sales"))
          @@ ("Ad Set Name" :> S("AS3")),
      Lvl("adset") @@ ("Ad Set Name" :> S("AS4"))
          @@ ("Age Min" :> I(40)) @@ ("Age Max" :> I(20))
          @@ ("Gender" :> S("unknown"))
          @@ ("Link" :> S("https://example.com")) @@ ("URL Tags" :> S("tracking")),
      Lvl("ad") @@ ("Campaign Name" :> S("Ghost"))
          @@ ("Campaign Objective" :> S("Reach")),
      Lvl("  "),
      "Campaign Name" :> S("No Level") }

MainTables == TablesOf(MainRows, MaxRows)

Init == \E table \in MainTables : Start(table)

Spec == Init /\ [][Next]_vars

\* Rows of the re-validation scenarios: campaign rows with one invalid field
\* each, and adset rows that inherit them, with and without an own budget.
Campaign(name) == Lvl("campaign") @@ ("Campaign Name" :> S(name))

RevalRows ==
    { Campaign("Camp A") @@ ("Campaign Objective" :> S("Leads")),
      Campaign("Bad objective") @@ ("Campaign Objective" :> S("Bogus")),
      Campaign("Bad status") @@ ("Campaign Status" :> S("RUNNING")),
      Campaign("Bad buying type") @@ ("Buying Type" :> S("RESERVED")),
      Campaign("Bad bid strategy") @@ ("Campaign Bid Strategy" :> S("Cheapest")),
      Campaign("Bad budget") @@ ("Campaign Daily Budget" :> I(-5)),
      Campaign("Bad start") @@ ("Campaign Start Time" :> S("2025-13-01 10:00")),
      Campaign("Bad stop") @@ ("Campaign Stop Time" :> S("next week")),
      Lvl("adset") @@ ("Ad Set Name" :> S("AS1")),
      Lvl("adset") @@ ("Ad Set Name" :> S("AS2")) @@ ("Ad Set Daily Budget" :> I(50)),
      Lvl("ad") @@ ("Ad Set Name" :> S("AS3")) }

InitReval == \E table \in TablesOf(RevalRows, MaxRows) : Start(table)

SpecReval == InitReval /\ [][Next]_vars

\* the mark of a key that a dict does not have
Absent == [k |-> "absent", s |-> "", n |-> 0, e |-> 0]

\* the dict without the keys marked Absent
Drop(dict) == [c \in {c \in DOMAIN dict : dict[c] # Absent} |-> dict[c]]

\* the dicts base @@ (colA :> a) @@ (colB :> b)
Pairs(base, colA, valuesA, colB, valuesB) ==
    { Drop(base @@ (colA :> a) @@ (colB :> b)) : a \in valuesA, b \in valuesB }

\* Rows of the budget scenarios.
BudgetRows ==
    { Campaign("Camp A") @@ ("Campaign Objective" :> S("Sales"))
          @@ ("Campaign Daily Budget" :> I(100)),
      Lvl("other") }
    \cup Pairs(Lvl("adset") @@ ("Ad Set Name" :> S("AS1")),
               "Campaign Daily Budget", {Absent, I(100), S(" 75 "), S("")},
               "Ad Set Daily Budget", {Absent, I(50), S(" 20.5 "), S(""), S("abc")})

InitBudget == \E table \in TablesOf(BudgetRows, MaxFieldRows) : Start(table)

SpecBudget == InitBudget /\ [][Next]_vars

\* Rows of the age scenarios.
AgeRows ==
    { Campaign("Camp A") @@ ("Special Ad Categories" :> S("HOUSING")),
      Campaign("Camp B") @@ ("Special Ad Categories" :> S("")),
      Lvl("other") }
    \cup { Drop(Lvl("adset") @@ ("Special Ad Categories" :> sc) @@ ages) :
               sc \in {Absent, S(""), S("CREDIT")},
               ages \in { ("Age Min" :> Absent) @@ ("Age Max" :> Absent),
                          ("Age Min" :> I(10)) @@ ("Age Max" :> I(70)),
                          ("Age Min" :> I(70)) @@ ("Age Max" :> I(80)),
                          ("Age Min" :> I(5)) @@ ("Age Max" :> I(10)),
                          ("Age Min" :> I(40)) @@ ("Age Max" :> I(20)),
                          ("Age Min" :> S("")) @@ ("Age Max" :> S("")),
                          ("Age Min" :> S(" 21 ")) @@ ("Age Max" :> F(305, 1)) } }

InitAge == \E table \in TablesOf(AgeRows, MaxFieldRows) : Start(table)

SpecAge == InitAge /\ [][Next]_vars

\* Rows of the call-to-action scenarios.
CtaRows ==
    { Campaign("Camp A") @@ ("Campaign Objective" :> S("Leads")),
      Lvl("other") @@ ("Call to Action" :> S("SUBSCRIBE")) }
    \cup Pairs(Lvl("adset") @@ ("Ad Set Name" :> S("AS1")),
               "Campaign Objective", {Absent, S("Leads"), S("App Installs"), S("")},
               "Call to Action", {Absent, S(""), S(" BOOK_NOW "), S("shop now"), S("  ")})

InitCta == \E table \in TablesOf(CtaRows, MaxFieldRows) : Start(table)

SpecCta == InitCta /\ [][Next]_vars

\* Rows of the link and tracking scenarios.
LinkRows ==
    { Campaign("Camp A") @@ ("Campaign Objective" :> S("Traffic")),
      Lvl("other") @@ ("Link" :> S("https://example.com")),
      Lvl("adset") @@ ("Age Min" :> I(40)) @@ ("Age Max" :> I(20))
          @@ ("Link" :> S("https://example.com")) @@ ("URL Tags" :> S("tracking")),
      Lvl("adset") @@ ("Ad Set Name" :> S("AS2"))
          @@ ("Link" :> S("  ")) @@ ("URL Tags" :> S("tracking")) }
    \cup Pairs(Lvl("adset") @@ ("Ad Set Name" :> S("AS1")),
               "Link", {Absent, S(""), S(" https://example.com/p ")},
               "URL Tags", {Absent, S(""), S(" utm_source=news "), S("tracking"),
                            S("utm_only"), S("a=b")})

InitLink == \E table \in TablesOf(LinkRows, MaxFieldRows) : Start(table)

SpecLink == InitLink /\ [][Next]_vars

\* Rows of the enumeration scenarios: each enumerated field with a value of
\* its set, padded, in another case and outside the set, as text and as a number.
EnumRows ==
    { Campaign("Camp A") @@ ("Campaign Objective" :> S("Leads"))
          @@ ("Campaign Status" :> S(" PAUSED "))
          @@ ("Special Ad Categories" :> S("HOUSING")),
      Campaign("Camp G") @@ ("Special Ad Categories" :> S("GAMBLING")),
      Campaign("Camp R") @@ ("Buying Type" :> S("RESERVED")),
      Campaign("Camp L") @@ ("Campaign Bid Strategy" :> S("lowest cost")),
      Lvl("adset") @@ ("Ad Set Name" :> S("AS1")),
      Lvl("adset") @@ ("Ad Set Name" :> S("AS2")) @@ ("Gender" :> S("male")),
      Lvl("adset") @@ ("Ad Set Name" :> S("AS3")) @@ ("Gender" :> S("unknown")),
      Lvl("adset") @@ ("Ad Set Name" :> S("AS4")) @@ ("Ad Set Run Status" :> S("RUNNING")),
      Lvl("adset") @@ ("Ad Set Name" :> S("AS5")) @@ ("Ad Status" :> S("paused")),
      Lvl("adset") @@ ("Ad Set Name" :> S("AS6")) @@ ("Call to Action" :> S("shop now")),
      Lvl("adset") @@ ("Ad Set Name" :> S("AS7")) @@ ("Call to Action" :> I(0)),
      Lvl("adset") @@ ("Ad Set Name" :> S("AS8")) @@ ("Call to Action" :> S(" BOOK_NOW ")),
      Lvl("adset") @@ ("Ad Set Name" :> S("AS9"))
          @@ ("Special Ad Categories" :> S("Gambling")),
      Lvl("adset") @@ ("Ad Set Name" :> S("AS10")) @@ ("Campaign Objective" :> S("Bogus")),
      Lvl("adset") @@ ("Ad Set Name" :> S("AS11")) @@ ("Campaign Status" :> S("  ")),
      Lvl("other") @@ ("Gender" :> S("unknown")) }

InitEnum == \E table \in TablesOf(EnumRows, MaxFieldRows) : Start(table)

SpecEnum == InitEnum /\ [][Next]_vars

\* Rows of the blank-budget scenarios: otherwise valid campaign and adset rows
\* whose budget cells are missing, empty, absent or set.
BlankBudgetRows ==
    { Lvl("other") @@ ("Campaign Daily Budget" :> I(100)),
      Lvl("adset") @@ ("Ad Set Name" :> S("AS0")) @@ ("Campaign Daily Budget" :> S("abc")) }
    \cup Pairs(Lvl("adset") @@ ("Ad Set Name" :> S("AS1")),
               "Campaign Daily Budget", {Absent, S(""), I(100)},
               "Ad Set Daily Budget", {Absent, S(""), I(50), S("  ")})
    \cup Pairs(Campaign("Camp A"),
               "Campaign Daily Budget", {Absent, S(""), I(100)},
               "Ad Set Daily Budget", {Absent, I(50)})

InitBlankBudget == \E table \in TablesOf(BlankBudgetRows, MaxFieldRows) : Start(table)

SpecBlankBudget == InitBlankBudget /\ [][Next]_vars

\* Rows of the optimisation-goal scenarios.
OptRows ==
    { Campaign("Camp A") @@ ("Campaign Objective" :> S("Leads")),
      Lvl("other") @@ ("Optimisation Goal" :> S("REACH")) }
    \cup Pairs(Lvl("adset") @@ ("Ad Set Name" :> S("AS1")),
               "Campaign Objective", {Absent, S("Leads"), S("App Installs"), S("")},
               "Optimisation Goal", {Absent, S(""), S(" REACH "), S("anything goes"),
                                     S("  ")})

InitOpt == \E table \in TablesOf(OptRows, MaxFieldRows) : Start(table)

SpecOpt == InitOpt /\ [][Next]_vars

\* Rows of the budget-number scenarios: whole, fractional, zero, negative and
\* non-numeric budgets, as numbers and as text.
NumberRows ==
    { Lvl("other") @@ ("Campaign Daily Budget" :> I(100)),
      Lvl("adset") @@ ("Ad Set Name" :> S("AS1")) }
    \cup { Campaign("Camp A") @@ ("Campaign Daily Budget" :> b) :
               b \in {F(4, 1), I(0), I(-5), S("abc"), F(25, 1), F(16, 1), I(100), S(" 75 ")} }
    \cup { Lvl("adset") @@ ("Ad Set Name" :> S("AS2")) @@ ("Ad Set Daily Budget" :> b) :
               b \in {F(4, 1), I(0), S("ten"), F(35, 1), I(50), S("-3")} }

InitNumber == \E table \in TablesOf(NumberRows, MaxFieldRows) : Start(table)

SpecNumber == InitNumber /\ [][Next]_vars

(***************************************************************************)
(* Vocabulary of the properties.                                           *)
(***************************************************************************)
\* a blank cell: a missing value or an empty string
Blank(cell) == IsNa(cell) \/ IsEmptyStr(cell)

\* the cell of column col of input row i, a missing value if the column is absent
Cell(i, col) == IF col \in df.columns THEN df.data[i][col] ELSE NaN

\* the cell of column col that row i is processed with
Effective(i, col) == IF col \in df_ff.columns THEN df_ff.data[i][col] ELSE NaN

\* this step of the loop appends exactly one output record and no error record
Emits ==
    /\ Len(rows') = Len(rows) + 1
    /\ SubSeq(rows', 1, Len(rows)) = rows
    /\ errors' = errors

\* this step of the loop appends no output record and exactly one error
\* record, of the row it processes
Rejects ==
    /\ rows' = rows
    /\ Len(errors') = Len(errors) + 1
    /\ SubSeq(errors', 1, Len(errors)) = errors
    /\ errors'[Len(errors')].row = idx + 1

\* the record and the error that this step appends
Emitted == rows'[Len(rows')]
Rejected == errors'[Len(errors')]

(***************************************************************************)
(* C1.  Every input row becomes exactly one output record or exactly one   *)
(* error record, never both, never neither and never several error         *)
(* records, so that the records and the errors add up to the input rows;   *)
(* a failing row does not stop the rows after it.                          *)
(***************************************************************************)
C1_Counts ==
    /\ pc = "rows" => Len(rows) + Len(errors) = idx - 1
    /\ pc = "done" => /\ Len(output_df.data) + Len(errors_df.data) = Len(df.data)
                      /\ Len(output_df.data) = Len(rows)
                      /\ Len(errors_df.data) = Len(errors)
    /\ \A i, j \in 1..Len(errors) : i # j => errors[i].row # errors[j].row

C1_RowStep == InLoop => idx' = idx + 1 /\ (Emits \/ Rejects) /\ ~(Emits /\ Rejects)

C1_OneOutcomePerRow == []C1_Counts /\ [][C1_RowStep]_vars

\* a three-row table whose first row has several invalid fields and whose
\* other rows are both emitted
C1_Witness ==
    /\ pc = "done"
    /\ Len(df.data) = 3
    /\ Cell(1, "Campaign Objective") = S("Bogus")
    /\ Cell(1, "Campaign Status") = S("RUNNING")
    /\ Len(errors_df.data) = 1
    /\ errors_df.data[1].row = 2
    /\ Len(output_df.data) = 2

(***************************************************************************)
(* C2.  A row is accepted for processing exactly when its Input Level,     *)
(* lower-cased and trimmed, is campaign or adset; any other row, a blank   *)
(* or missing level included, yields no output record and exactly one      *)
(* error record, of field "Input Level".                                   *)
(***************************************************************************)
AcceptedLevel(i) ==
    /\ Cell(i, "Input Level").k = "str"
    /\ Strip(Lower(Cell(i, "Input Level").s)) \in {"campaign", "adset"}

C2_RowStep ==
    InLoop =>
        IF AcceptedLevel(idx)
        THEN Emits \/ (Rejects /\ Rejected.field = Strip(Lower(Cell(idx, "Input Level").s)))
        ELSE Rejects /\ Rejected.field = "Input Level"

C2_LevelGate == [][C2_RowStep]_vars

\* a row of missing level is rejected and a row of level " CAMPAIGN " is
\* processed as a campaign row
C2_Witness ==
    /\ pc = "done"
    /\ \E i \in 1..Len(df.data) :
          /\ IsNa(Cell(i, "Input Level"))
          /\ \E e \in Range(errors) : e.row = i + 1 /\ e.field = "Input Level"
    /\ \E i \in 1..Len(df.data) :
          /\ Cell(i, "Input Level") = S(" CAMPAIGN ")
          /\ \E e \in Range(errors) : e.row = i + 1 /\ e.field = "campaign"
    /\ Len(rows) = 1

(***************************************************************************)
(* C3.  Forward fill: a blank cell of a campaign column, a missing value   *)
(* or an empty string, is processed with the nearest preceding non-blank   *)
(* value of its column, and stays blank when there is none.                *)
(***************************************************************************)
RECURSIVE NearestNonBlank(_, _)
\* the nearest non-blank cell of column col at or above row i, NaN if none
NearestNonBlank(i, col) ==
    IF i = 0 THEN NaN
    ELSE IF ~Blank(df.data[i][col]) THEN df.data[i][col]
    ELSE NearestNonBlank(i - 1, col)

C3_BlankInherits ==
    pc # "ffill" =>
        \A i \in 1..Len(df.data) : \A col \in Range(campaign_cols) \cap df.columns :
            Blank(df.data[i][col]) =>
                IF Blank(NearestNonBlank(i - 1, col))
                THEN Blank(df_ff.data[i][col])
                ELSE df_ff.data[i][col] = NearestNonBlank(i - 1, col)

(***************************************************************************)
(* C4.  The campaign context changes only at campaign rows: no campaign or *)
(* adset row is processed with a value of a campaign column inherited from *)
(* an adset row or from a row of invalid level.                            *)
(***************************************************************************)
RECURSIVE FillSource(_, _)
\* the row at or above row i whose cell of column col the forward fill
\* copies down, 0 if none
FillSource(i, col) ==
    IF i = 0 THEN 0
    ELSE IF ~IsNa(df.data[i][col]) THEN i
    ELSE FillSource(i - 1, col)

C4_ContextFromCampaignRows ==
    pc # "ffill" =>
        \A i \in 1..Len(df.data) : \A col \in Range(campaign_cols) \cap df.columns :
            (AcceptedLevel(i) /\ IsNa(df.data[i][col]) /\ ~Blank(df_ff.data[i][col])) =>
                /\ FillSource(i, col) > 0
                /\ AcceptedLevel(FillSource(i, col))
                /\ Strip(Lower(Cell(FillSource(i, col), "Input Level").s)) = "campaign"

\* this step of the loop processes an adset row
AdsetStep == InLoop /\ Level(df_ff.data[idx]) = "adset"

\* the cell is blank for a text field: missing, empty or whitespace only
BlankText(i, col) == IsBlankText(Effective(i, col))

(***************************************************************************)
(* C5.  An adset row re-validates the campaign fields it inherits with the *)
(* validators of a campaign row: when the inherited value of one of them   *)
(* would make the campaign row fail, the adset row is dropped with an      *)
(* error record of field "adset" and of its own row number.                *)
(***************************************************************************)
\* the campaign fields, in the order of CampaignChecks
CampaignFields ==
    <<"Campaign Objective", "Campaign Status", "Buying Type", "Campaign Bid Strategy",
      "Campaign Daily Budget", "Campaign Start Time", "Campaign Stop Time">>

\* field f of the row of this step is inherited and fails its campaign validator
InheritedFailure(f) ==
    /\ CampaignFields[f] \in df.columns
    /\ IsNa(df.data[idx][CampaignFields[f]])
    /\ ~CampaignChecks(df_ff.data[idx])[f].ok

C5_Original_Step ==
    AdsetStep =>
        \A f \in 1..Len(CampaignFields) :
            InheritedFailure(f) => Rejects /\ Rejected.field = "adset"

\* the claim as stated: every inherited campaign field is re-validated
C5_Original == [][C5_Original_Step]_vars

\* C5 as amended: the inherited campaign daily budget is re-validated only
\* when the Ad Set Daily Budget of the adset row is blank; a non-blank one
\* clears the campaign budget before it is validated.
C5_Amended_Step ==
    AdsetStep =>
        \A f \in 1..Len(CampaignFields) :
            (/\ InheritedFailure(f)
             /\ (CampaignFields[f] = "Campaign Daily Budget"
                    => BlankText(idx, "Ad Set Daily Budget")))
                => Rejects /\ Rejected.field = "adset"

C5_Revalidation == [][C5_Amended_Step]_vars

\* a campaign row of invalid status and two adset rows that inherit it: three errors
C5_Witness ==
    /\ pc = "done"
    /\ Len(df.data) = 3
    /\ Cell(1, "Campaign Status") = S("RUNNING")
    /\ IsNa(Cell(2, "Campaign Status")) /\ IsNa(Cell(3, "Campaign Status"))
    /\ Len(errors) = 3
    /\ errors[1].field = "campaign"
    /\ errors[2] = ErrorRecord(3, "adset", errors[1].error)
    /\ errors[3] = ErrorRecord(4, "adset", errors[1].error)

(***************************************************************************)
(* C6.  Budget precedence: no emitted record has both budgets non-empty;   *)
(* an emitted adset row whose effective campaign budget and ad-set budget  *)
(* are both non-blank has an empty Campaign Daily Budget and the           *)
(* normalised ad-set budget (100 and 50 give "" and "50").                 *)
(***************************************************************************)
C6_State ==
    /\ \A i \in 1..Len(rows) :
          "Ad Set Daily Budget" \in DOMAIN rows[i] =>
              ~(rows[i]["Campaign Daily Budget"] # "" /\ rows[i]["Ad Set Daily Budget"] # "")
    /\ \A i \in 1..Len(output_df.data) :
          ~(/\ ~Blank(output_df.data[i]["Campaign Daily Budget"])
            /\ ~Blank(output_df.data[i]["Ad Set Daily Budget"]))

C6_Step ==
    (/\ AdsetStep
     /\ ~BlankText(idx, "Campaign Daily Budget")
     /\ ~BlankText(idx, "Ad Set Daily Budget")
     /\ Emits)
        => /\ Emitted["Campaign Daily Budget"] = ""
           /\ Emitted["Ad Set Daily Budget"] = _pos_number(Effective(idx, "Ad Set Daily Budget")).v
           /\ Emitted["Ad Set Daily Budget"] # ""
           /\ Effective(idx, "Ad Set Daily Budget") = I(50)
                 => Emitted["Ad Set Daily Budget"] = "50"

C6_BudgetPrecedence == []C6_State /\ [][C6_Step]_vars

\* an adset row of ad-set budget 50 that inherits the campaign budget 100
C6_Witness ==
    /\ pc = "done"
    /\ Len(df.data) = 2
    /\ Cell(1, "Campaign Daily Budget") = I(100)
    /\ IsNa(Cell(2, "Campaign Daily Budget"))
    /\ Effective(2, "Campaign Daily Budget") = I(100)
    /\ Cell(2, "Ad Set Daily Budget") = I(50)
    /\ Len(output_df.data) = 2
    /\ output_df.data[2]["Campaign Daily Budget"] = S("")
    /\ output_df.data[2]["Ad Set Daily Budget"] = S("50")

(***************************************************************************)
(* C7.  Age clamping: every emitted adset record has                       *)
(* m <= Age Min <= Age Max <= 65, m being 18 when the effective Special Ad *)
(* Categories is non-blank and 13 otherwise; integer ages with             *)
(* Age Min <= Age Max never reject the row.                                *)
(***************************************************************************)
EffectiveMinimum(i) == IF BlankText(i, "Special Ad Categories") THEN 13 ELSE 18

IntegerAges(i) ==
    /\ Effective(i, "Age Min").k = "int"
    /\ Effective(i, "Age Max").k = "int"
    /\ Effective(i, "Age Min").n <= Effective(i, "Age Max").n

C7_Step ==
    AdsetStep =>
        /\ Emits =>
              /\ EffectiveMinimum(idx) <= ParseInt(Emitted["Age Min"]).n
              /\ ParseInt(Emitted["Age Min"]).n <= ParseInt(Emitted["Age Max"]).n
              /\ ParseInt(Emitted["Age Max"]).n <= 65
        /\ IntegerAges(idx) => Emits

C7_AgesClamped == [][C7_Step]_vars

(***************************************************************************)
(* C8.  Effective minimum age: with a blank effective Special Ad           *)
(* Categories (missing value, empty string or absent column) the minimum   *)
(* is 13, so ages 10 and 70 are emitted as 13 and 65 and blank ages as 13  *)
(* and 65; with a non-blank one, own or inherited, the minimum is 18, so   *)
(* Age Min 10 is emitted as 18.                                            *)
(***************************************************************************)
BlankAges(i) == Blank(Effective(i, "Age Min")) /\ Blank(Effective(i, "Age Max"))

C8_Step ==
    (AdsetStep /\ Emits) =>
        IF Blank(Effective(idx, "Special Ad Categories"))
        THEN /\ (Effective(idx, "Age Min") = I(10) /\ Effective(idx, "Age Max") = I(70))
                   => (Emitted["Age Min"] = "13" /\ Emitted["Age Max"] = "65")
             /\ BlankAges(idx) => (Emitted["Age Min"] = "13" /\ Emitted["Age Max"] = "65")
        ELSE Effective(idx, "Age Min") = I(10) => Emitted["Age Min"] = "18"

C8_EffectiveMinimum == [][C8_Step]_vars

(***************************************************************************)
(* C9.  Call-to-action default: an emitted adset record whose Call to      *)
(* Action cell is blank (missing value, empty string or absent column) has *)
(* the call to action of its objective in the objective defaults ("Leads"  *)
(* gives "SIGN_UP"), "LEARN_MORE" when the objective has no entry, and     *)
(* never an empty one.                                                     *)
(***************************************************************************)
C9_Step ==
    (AdsetStep /\ Emits /\ Blank(Effective(idx, "Call to Action"))) =>
        /\ Emitted["Call to Action"] # ""
        /\ Emitted["Campaign Objective"] = "Leads" => Emitted["Call to Action"] = "SIGN_UP"
        /\ Emitted["Campaign Objective"] \in DOMAIN OBJ_DEFAULTS
              => Emitted["Call to Action"] = OBJ_DEFAULTS[Emitted["Campaign Objective"]].cta
        /\ Emitted["Campaign Objective"] \notin DOMAIN OBJ_DEFAULTS
              => Emitted["Call to Action"] = "LEARN_MORE"

C9_CtaDefault == [][C9_Step]_vars

(***************************************************************************)
(* C10.  Link and tracking of an adset row: with a blank Link the record   *)
(* has an empty Link and empty URL Tags whatever the URL Tags cell holds,  *)
(* and ill-formed tags do not reject the row; with a Link and blank URL    *)
(* Tags the tags are the default tag string; with a Link and URL Tags the  *)
(* row is dropped with the tracking-format error unless the tags contain   *)
(* "=" and "utm_", and else both are emitted trimmed.  In every emitted    *)
(* record URL Tags is empty exactly when Link is empty.                    *)
(***************************************************************************)
WellFormedTags(i) ==
    /\ Contains("=", Strip(PyStr(Effective(i, "URL Tags"))))
    /\ Contains("utm_", Strip(PyStr(Effective(i, "URL Tags"))))

IsTrackingError(e) == SubSeq(e.error, 1, 18) = "Invalid UTM format"

\* the validators called before the tracking check pass on row i
ReachesTracking(i) == AdsetChecks(df_ff.data[i])[1].ok /\ AdsetChecks(df_ff.data[i])[2].ok

C10_State ==
    /\ \A i \in 1..Len(rows) :
          "Link" \in DOMAIN rows[i] => (rows[i]["URL Tags"] = "" <=> rows[i]["Link"] = "")
    /\ \A i \in 1..Len(output_df.data) :
          Blank(output_df.data[i]["URL Tags"]) <=> Blank(output_df.data[i]["Link"])

C10_Step ==
    AdsetStep =>
        IF BlankText(idx, "Link")
        THEN /\ Emits => Emitted["Link"] = "" /\ Emitted["URL Tags"] = ""
             /\ Rejects => ~IsTrackingError(Rejected)
             /\ ReachesTracking(idx) => Emits
        ELSE IF BlankText(idx, "URL Tags")
        THEN Emits => /\ Emitted["Link"] = Strip(PyStr(Effective(idx, "Link")))
                      /\ Emitted["URL Tags"] = utm_default
        ELSE IF ~WellFormedTags(idx)
        THEN /\ Rejects
             /\ Rejected.field = "adset"
             /\ ReachesTracking(idx) => IsTrackingError(Rejected)
        ELSE Emits => /\ Emitted["Link"] = Strip(PyStr(Effective(idx, "Link")))
                      /\ Emitted["URL Tags"] = Strip(PyStr(Effective(idx, "URL Tags")))

C10_LinkAndTracking == []C10_State /\ [][C10_Step]_vars

\* three adset outcomes of one table each: ill-formed tags beside a blank
\* link are emitted empty; a link with ill-formed tags is dropped
C10_Witness ==
    /\ pc = "done"
    /\ Len(df.data) = 2
    /\ Cell(1, "Link") = S("") /\ Cell(1, "URL Tags") = S("tracking")
    /\ Cell(2, "Link") = S(" https://example.com/p ") /\ Cell(2, "URL Tags") = S("a=b")
    /\ Len(output_df.data) = 1
    /\ output_df.data[1]["Link"] = S("") /\ output_df.data[1]["URL Tags"] = S("")
    /\ Len(errors) = 1 /\ errors[1].row = 3 /\ IsTrackingError(errors[1])

(***************************************************************************)
(* C11.  Column completeness: the output table has exactly the columns of  *)
(* column_order, in that order, whatever the input; a column that a record *)
(* did not set holds the empty string, so the record of a campaign row has *)
(* the empty string in every ad-set and creative column.                   *)
(***************************************************************************)
\* record i of rows is the record of a campaign row
IsCampaignRecord(i) == DOMAIN rows[i] = Range(campaign_cols)

C11_ColumnCompleteness ==
    pc = "done" =>
        /\ output_df.columns = column_order
        /\ \A i \in 1..Len(output_df.data) :
              /\ DOMAIN output_df.data[i] = Range(column_order)
              /\ \A c \in Range(column_order) :
                    /\ ~IsNa(output_df.data[i][c])
                    /\ (IsCampaignRecord(i) /\ c \notin Range(campaign_cols))
                          => output_df.data[i][c] = S("")

(***************************************************************************)
(* C12.  Every record that the output table holds for an adset row carries *)
(* the placements flag "Advantage+ placements" with the value true, and    *)
(* the flag is a column of the output table.                               *)
(***************************************************************************)
C12_PlacementsFlag ==
    (pc = "done" /\ \E i \in 1..Len(rows) : ~IsCampaignRecord(i)) =>
        /\ "Advantage+ placements" \in Range(output_df.columns)
        /\ \A i \in 1..Len(rows) :
              ~IsCampaignRecord(i) =>
                  /\ "Advantage+ placements" \in DOMAIN output_df.data[i]
                  /\ output_df.data[i]["Advantage+ placements"] = S("true")

\* this step of the loop processes a campaign row
CampaignStep == InLoop /\ Level(df_ff.data[idx]) = "campaign"

(***************************************************************************)
(* C13.  Enumerated fields: in every emitted record Campaign Status,       *)
(* Ad Set Run Status and Ad Status are empty or in the status set,         *)
(* Campaign Objective, Buying Type, Campaign Bid Strategy and Call to      *)
(* Action are empty or in their sets, and Gender is empty or one of All,   *)
(* Male, Female; a row on which one of these fields is processed with a    *)
(* non-blank value outside its set is dropped with an error record.        *)
(***************************************************************************)
\* the enumerated fields of a campaign row, and those an adset row adds
CampaignEnums ==
    ("Campaign Status" :> VALID.status) @@ ("Campaign Objective" :> VALID.objectives)
        @@ ("Buying Type" :> VALID.buying_type)
        @@ ("Campaign Bid Strategy" :> VALID.bid_strategies)

AdsetEnums ==
    CampaignEnums @@ ("Ad Set Run Status" :> VALID.status) @@ ("Ad Status" :> VALID.status)
        @@ ("Call to Action" :> VALID.cta) @@ ("Gender" :> VALID.gender)

\* the value that the validator of column col compares with the set: the
\* trimmed text of the cell, title-cased for Gender
Normalised(i, col) ==
    IF col = "Gender" THEN Title(Strip(PyStr(Effective(i, col))))
    ELSE Strip(PyStr(Effective(i, col)))

\* row i holds a non-blank value outside the set in one of the columns of enums
OutsideItsSet(i, enums) ==
    \E col \in DOMAIN enums :
        ~IsBlankText(Effective(i, col)) /\ Normalised(i, col) \notin enums[col]

C13_Step ==
    /\ (InLoop /\ Emits) =>
          \A col \in DOMAIN AdsetEnums \cap DOMAIN Emitted :
              Emitted[col] = "" \/ Emitted[col] \in AdsetEnums[col]
    /\ (CampaignStep /\ OutsideItsSet(idx, CampaignEnums)) => Rejects
    /\ (AdsetStep /\ OutsideItsSet(idx, AdsetEnums)) => Rejects

C13_EnumeratedFields == [][C13_Step]_vars

(***************************************************************************)
(* C14.  Special Ad Categories is a closed enumeration: a campaign or      *)
(* adset row whose effective Special Ad Categories is non-blank and        *)
(* outside the set is rejected, so no emitted record carries a value       *)
(* outside the set.                                                        *)
(***************************************************************************)
C14_Step ==
    (CampaignStep \/ AdsetStep) =>
        /\ (/\ ~IsBlankText(Effective(idx, "Special Ad Categories"))
            /\ Strip(PyStr(Effective(idx, "Special Ad Categories")))
                  \notin VALID.special_categories) => Rejects
        /\ Emits => \/ Emitted["Special Ad Categories"] = ""
                    \/ Emitted["Special Ad Categories"] \in VALID.special_categories

C14_SpecialCategoryClosed == [][C14_Step]_vars

(***************************************************************************)
(* C15.  Error table: the error record of the failing row at 0-based       *)
(* position i has row = i + 2; its field is "Input Level" when the level   *)
(* is invalid and else the lower-cased, trimmed level of the row; the      *)
(* error records are in input order, their row numbers strictly            *)
(* increasing; the error table is empty when no row fails.                 *)
(***************************************************************************)
\* the field of the error record of the row at 1-based position i
ErrorFieldOf(i) ==
    IF AcceptedLevel(i) THEN Strip(Lower(Cell(i, "Input Level").s)) ELSE "Input Level"

C15_State ==
    /\ \A p \in 1..Len(errors) :
          /\ errors[p].row - 2 \in 0..(Len(df.data) - 1)
          /\ errors[p].field = ErrorFieldOf(errors[p].row - 1)
          /\ p > 1 => errors[p - 1].row < errors[p].row
    /\ pc = "done" =>
          /\ errors_df.data = errors
          /\ errors # <<>> => errors_df.columns = <<"row", "field", "error">>
          /\ errors = <<>> => errors_df = EmptyFrame

C15_Step ==
    /\ InLoop => (rows' = rows => (Rejects /\ Rejected.row = (idx - 1) + 2
                                          /\ Rejected.field = ErrorFieldOf(idx)))
    /\ (InLoop /\ Emits) => errors' = errors

C15_ErrorTable == []C15_State /\ [][C15_Step]_vars

\* three rows of which the first, of invalid level, and the third, a campaign
\* row with invalid fields, fail: error records of rows 2 and 4, in this order
C15_Witness ==
    /\ pc = "done"
    /\ Len(df.data) = 3
    /\ ~AcceptedLevel(1) /\ AcceptedLevel(2) /\ AcceptedLevel(3)
    /\ Len(errors_df.data) = 2
    /\ errors_df.data[1].row = 2 /\ errors_df.data[1].field = "Input Level"
    /\ errors_df.data[2].row = 4 /\ errors_df.data[2].field = "campaign"
    /\ Len(output_df.data) = 1

(***************************************************************************)
(* C16.  Unset fields are empty strings: in every emitted record a         *)
(* free-text field whose effective input cell is blank (a missing value,   *)
(* an empty string or an absent column) is the empty string, and else the  *)
(* trimmed text of the cell.                                               *)
(***************************************************************************)
FreeTextFields ==
    {"Campaign Name", "Special Ad Categories", "Special Ad Category Country",
     "Ad Set Name", "Countries", "Custom Audiences", "Excluded Custom Audiences",
     "Ad Name", "Title", "Body", "Image File Name"}

C16_Step ==
    (InLoop /\ Emits) =>
        \A col \in FreeTextFields \cap DOMAIN Emitted :
            IF Blank(Effective(idx, col))
            THEN Emitted[col] = ""
            ELSE Emitted[col] = Strip(PyStr(Effective(idx, col)))

C16_UnsetFieldsEmpty == [][C16_Step]_vars

(***************************************************************************)
(* C17.  A blank budget never rejects a row: an otherwise valid campaign   *)
(* or adset row whose Campaign Daily Budget or Ad Set Daily Budget cell is *)
(* blank (a missing value, an empty string or an absent column, with       *)
(* nothing to inherit) is emitted, with the empty string in each budget    *)
(* field whose cell was blank.                                             *)
(***************************************************************************)
\* the validators of the row of this step other than those of the budgets pass
OtherwiseValid ==
    IF Level(df_ff.data[idx]) = "campaign"
    THEN \A f \in 1..7 : f # 5 => CampaignChecks(df_ff.data[idx])[f].ok
    ELSE \A f \in 1..17 : f \notin {9, 13} => AdsetChecks(df_ff.data[idx])[f].ok

\* the budget cells of the row of this step are blank or hold a positive number
BudgetCellOk(col) ==
    Blank(Effective(idx, col)) \/ _pos_number(Effective(idx, col)).ok

C17_Step ==
    (/\ CampaignStep \/ AdsetStep
     /\ OtherwiseValid
     /\ Blank(Effective(idx, "Campaign Daily Budget"))
           \/ (AdsetStep /\ Blank(Effective(idx, "Ad Set Daily Budget")))
     /\ BudgetCellOk("Campaign Daily Budget")
     /\ AdsetStep => BudgetCellOk("Ad Set Daily Budget"))
        => /\ Emits
           /\ Blank(Effective(idx, "Campaign Daily Budget"))
                 => Emitted["Campaign Daily Budget"] = ""
           /\ (AdsetStep /\ Blank(Effective(idx, "Ad Set Daily Budget")))
                 => Emitted["Ad Set Daily Budget"] = ""

C17_BlankBudgetAccepted == [][C17_Step]_vars

(***************************************************************************)
(* C18.  Optimisation-goal default: an emitted adset record whose          *)
(* Optimisation Goal cell is blank (a missing value, an empty string or an *)
(* absent column) has the optimisation goal of its objective in the        *)
(* objective defaults, "LINK_CLICKS" when the objective has no entry; a    *)
(* non-blank cell is emitted trimmed and unchanged, whatever it holds.     *)
(***************************************************************************)
C18_Step ==
    (AdsetStep /\ Emits) =>
        IF Blank(Effective(idx, "Optimisation Goal"))
        THEN /\ Emitted["Campaign Objective"] \in DOMAIN OBJ_DEFAULTS
                   => Emitted["Optimisation Goal"]
                          = OBJ_DEFAULTS[Emitted["Campaign Objective"]].optimisation
             /\ Emitted["Campaign Objective"] \notin DOMAIN OBJ_DEFAULTS
                   => Emitted["Optimisation Goal"] = "LINK_CLICKS"
        ELSE ~BlankText(idx, "Optimisation Goal")
                 => Emitted["Optimisation Goal"]
                        = Strip(PyStr(Effective(idx, "Optimisation Goal")))

C18_OptGoalDefault == [][C18_Step]_vars

(***************************************************************************)
(* C19.  Budgets are positive whole numbers: every non-empty Campaign      *)
(* Daily Budget or Ad Set Daily Budget of an emitted record is the decimal *)
(* string of an integer >= 1, the supplied number rounded to the nearest   *)
(* integer; a supplied budget that is non-numeric or <= 0 drops the row.   *)
(***************************************************************************)
BudgetColumns == {"Campaign Daily Budget", "Ad Set Daily Budget"}

\* the budget of column col that the row of this step is validated with: the
\* cell, unless the conflict resolution of an adset row clears it
Supplied(col) ==
    IF AdsetStep /\ col = "Campaign Daily Budget" /\ Budgets(df_ff.data[idx])[1] = ""
    THEN S("")
    ELSE Effective(idx, col)

\* text is the decimal string of an integer >= 1 nearest to the number v
WholeNumberOf(text, v) ==
    /\ ParseInt(text).ok
    /\ ParseInt(text).n >= 1
    /\ text = IntToStr(ParseInt(text).n)
    /\ v.ok /\ v.kind = "fin"
    /\ 2 * Abs(ParseInt(text).n * Pow10(v.e) - v.n) <= Pow10(v.e)

\* v is no number, or a number <= 0
NotPositive(v) == ~v.ok \/ v.kind = "nan" \/ (v.kind = "fin" /\ v.n <= 0)

C19_Step ==
    (CampaignStep \/ AdsetStep) =>
        \A col \in BudgetColumns :
            /\ (Emits /\ col \in DOMAIN Emitted /\ Emitted[col] # "")
                  => WholeNumberOf(Emitted[col], ToFloat(Supplied(col)))
            /\ (/\ CampaignStep => col = "Campaign Daily Budget"
                /\ ~IsBlankText(Supplied(col))
                /\ NotPositive(ToFloat(Supplied(col))))
                  => Rejects

C19_WholeBudgets == [][C19_Step]_vars

=============================================================================
